---- MODULE Spec2Model ----
(***************************************************************************)
(* Model of FilterResampler (projects/transcoder/filter/filter_resampler). *)
(*                                                                         *)
(* Three threads of control:                                               *)
(*   - the lifecycle caller (Configure, Start, Stop, destructor); Stop is  *)
(*     modelled statement by statement because the worker runs between     *)
(*     its statements;                                                     *)
(*   - the producer (SendBuffer);                                          *)
(*   - the worker (FilterThread), one action per statement that touches    *)
(*     shared state.                                                       *)
(* ov::Queue, ffmpeg::Conv and the libavfilter pipeline are collaborators  *)
(* whose code is not part of filter_resampler.cpp; they are modelled by    *)
(* their contract, with every return value the call site distinguishes.    *)
(***************************************************************************)
EXTENDS Integers, Sequences, FiniteSets, TLC

(* ---- bounds ---- *)
MaxFrames == 2      \* SendBuffer calls in one behaviour
MaxOut == 2         \* most output frames the pipeline yields for one feed

(* ---- program constants ---- *)
Threshold == 100    \* _input_buffer.SetThreshold(100)

VARIABLES
    kill_flag,        \* _kill_flag
    input_buffer,     \* _input_buffer: the queued frames, head first
    queue_stop,       \* _input_buffer's stopped state
    over_threshold,   \* number of Enqueue calls that reported a depth above the threshold
    thread_work,      \* _thread_work: "none" (not joinable) or "joinable"
    wpc,              \* where FilterThread is: none, top, dequeue, convert, feed, drain, done
    workers,          \* worker threads that were spawned and have not been joined
    cur,              \* media_frame held by the worker (NoFrame when none)
    filter_graph,     \* _filter_graph: null, allocated, configured
    buffersrc_ctx,    \* _buffersrc_ctx: null, unconfigured, configured (state of its graph)
    buffersink_ctx,   \* _buffersink_ctx: null, unconfigured, configured
    configure_ret,    \* what the last Configure returned: none, ok, fail
    input_track,      \* _input_track: NullTrack or a track with its timebase
    output_track,     \* _output_track
    freed,            \* the destructor's release statements executed so far, in order
    fatal,            \* ids of the frames whose conversion to an AVFrame failed
    undelivered,      \* ids of the inputs for which av_buffersink_get_frame returned a frame
                      \* that was not passed to _complete_handler
    late_delivery,    \* _complete_handler was called while the kill flag was set
    ready,            \* output frames the pipeline holds ready, as the id of the input that made them
    drain_ret,        \* last av_buffersink_get_frame result since the last dequeued frame
    lpc,              \* where the lifecycle caller is: idle, stop_queue, stop_join, dtor_free,
                      \* dtor_clear, destroyed
    in_dtor,          \* the running Stop() was called by the destructor
    crashed,          \* the process was terminated (std::terminate or a fault)
    sent,             \* number of SendBuffer calls made since the initial state
    send_ret,         \* return value of the last SendBuffer call (-1 before the first)
    last_was_stop,    \* the last lifecycle call that returned was Stop()
    stop_returned,    \* some Stop() call has returned
    complete_handler, \* a completion handler is registered (_complete_handler is non-empty)
    fed,              \* ids of frames handed to av_buffersrc_add_frame_flags successfully
    discarded,        \* ids of frames dropped by the worker with a logged error
    delivered         \* ids (of the originating input) of frames passed to _complete_handler, in order

vars == <<kill_flag, input_buffer, queue_stop, over_threshold, thread_work, wpc, workers, cur,
          filter_graph, buffersrc_ctx, buffersink_ctx, configure_ret, ready, drain_ret,
          lpc, in_dtor, crashed, sent, send_ret, last_was_stop, stop_returned,
          complete_handler, fed, discarded, delivered, input_track, output_track,
          freed, fatal, undelivered, late_delivery>>

NoFrame == [id |-> 0, bad |-> FALSE]

Frame(n, b) == [id |-> n, bad |-> b]

(* ---- ov::Queue, by its contract ---- *)

Enqueue(q, f) == Append(q, f)

DequeueReady(q, stopped) == stopped \/ q # <<>>

DequeueHasValue(q, stopped) == ~stopped /\ q # <<>>

QueueClear(q) == <<>>

(* ---- SendBuffer ---- *)

SendBufferDropsWhenFull(q, f) == IF Len(q) >= Threshold THEN q ELSE Append(q, f)

SendBufferAtHead(q, f) == <<f>> \o q

SendBuffer(q, f) == Enqueue(q, f)

SendBufferRet == 0

(* ---- construction ---- *)

\* an empty std::shared_ptr<MediaTrack>
NullTrack == [null |-> TRUE, num |-> 0, den |-> 0]

\* q: the frames already queued; stopped: Stop() has already returned
InitWith(q, stopped) ==
    /\ kill_flag \in (IF stopped THEN {TRUE} ELSE BOOLEAN)
    /\ input_buffer = q
    /\ queue_stop = stopped
    /\ over_threshold = 0
    /\ thread_work = "none"
    /\ wpc = "none"
    /\ workers = 0
    /\ cur = NoFrame
    /\ filter_graph = "null"
    /\ buffersrc_ctx = "null"
    /\ buffersink_ctx = "null"
    /\ configure_ret = "none"
    /\ input_track = NullTrack
    /\ output_track = NullTrack
    /\ freed = <<>>
    /\ fatal = {}
    /\ undelivered = {}
    /\ late_delivery = FALSE
    /\ ready = <<>>
    /\ drain_ret = "none"
    /\ lpc = "idle"
    /\ in_dtor = FALSE
    /\ crashed = FALSE
    /\ sent = 0
    /\ send_ret = IF q = <<>> THEN -1 ELSE SendBufferRet
    /\ last_was_stop = stopped
    /\ stop_returned = stopped
    /\ complete_handler \in BOOLEAN
    /\ fed = {}
    /\ discarded = {}
    /\ delivered = <<>>

Init == InitWith(<<>>, FALSE)

Alive == ~crashed /\ lpc # "destroyed"

\* the object exists and its destructor has not begun: its methods may be called
Usable == Alive /\ ~in_dtor

CallerIdle == Usable /\ lpc = "idle"

(* ---- Configure ---- *)

ConfigureSteps == {"alloc", "timebase", "src", "sink", "names", "parse", "config", "none"}

\* the steps Configure completed when its first failing step is failAt
Passed(failAt, step) ==
    LET order == <<"alloc", "timebase", "src", "sink", "names", "parse", "config", "none">>
        Pos(x) == CHOOSE i \in 1..Len(order) : order[i] = x
    IN  Pos(step) < Pos(failAt)

\* the steps whose failure is decided outside Configure (allocation and libavfilter calls)
ConfigureFaults == ConfigureSteps \ {"timebase"}

\* a MediaTrack, by the one attribute Configure computes with: its timebase
Track(num, den) == [null |-> FALSE, num |-> num, den |-> den]

\* descriptors whose timebases give a finite scale
ValidTracks == {Track(1, 1)}

InputTracks == {NullTrack, Track(1, 1)}

OutputTracks == {NullTrack, Track(1, 1), Track(0, 1), Track(0, 0)}

\* track->GetTimeBase(): dereferencing an empty shared_ptr is undefined behaviour; the
\* call either faults (DerefFaults) or reads whatever lies at the address as a timebase
DerefFaults(t) == IF t.null THEN BOOLEAN ELSE {FALSE}

GetTimeBase(t) ==
    IF t.null THEN {Track(1, 1), Track(0, 1), Track(0, 0)} ELSE {t}

\* av_q2d(av_div_q(a, b)) = (a.num * b.den) / (double)(a.den * b.num)
Scale(a, b) ==
    LET n == a.num * b.den
        d == a.den * b.num
    IN  IF d # 0 THEN "finite" ELSE IF n = 0 THEN "nan" ELSE "inf"

ScaleRejected(s) == s = "nan"

Configure(input, output, failAt) ==
    /\ CallerIdle
    /\ input_track' = input
    /\ output_track' = output
    /\ \E itb \in GetTimeBase(input), otb \in GetTimeBase(output),
          ifault \in DerefFaults(input), ofault \in DerefFaults(output) :
         LET faulted == failAt # "alloc" /\ (ifault \/ ofault)
             failed == IF failAt = "alloc" THEN "alloc"
                       ELSE IF ~faulted /\ ScaleRejected(Scale(itb, otb)) THEN "timebase"
                       ELSE failAt
         IN  IF faulted
             THEN /\ filter_graph' = "allocated"
                  /\ crashed' = TRUE
                  /\ UNCHANGED <<buffersrc_ctx, buffersink_ctx, configure_ret, last_was_stop,
                                 ready>>
             ELSE /\ filter_graph' = IF failed = "none" THEN "configured"
                                     ELSE IF Passed(failed, "alloc") THEN "allocated"
                                     ELSE "null"
                  /\ buffersrc_ctx' = IF failed = "none" THEN "configured"
                                      ELSE IF Passed(failed, "src") THEN "unconfigured"
                                      ELSE IF failed = "src" THEN "null" ELSE buffersrc_ctx
                  /\ buffersink_ctx' = IF failed = "none" THEN "configured"
                                       ELSE IF Passed(failed, "sink") THEN "unconfigured"
                                       ELSE IF failed = "sink" THEN "null" ELSE buffersink_ctx
                  /\ configure_ret' = IF failed = "none" THEN "ok" ELSE "fail"
                  /\ last_was_stop' = FALSE
                  \* a newly created sink belongs to a new graph, which holds no output yet
                  /\ ready' = IF failed = "none" \/ Passed(failed, "sink") THEN <<>> ELSE ready
                  /\ UNCHANGED crashed
    /\ UNCHANGED <<undelivered, late_delivery, freed, fatal, kill_flag, input_buffer, queue_stop, over_threshold, thread_work, wpc,
                   workers, cur, drain_ret, lpc, in_dtor, sent, send_ret,
                   stop_returned, complete_handler, fed, discarded, delivered>>

(* ---- Start ---- *)

Joinable(t) == t = "joinable"

Start(spawnOk) ==
    /\ CallerIdle
    /\ last_was_stop' = FALSE
    /\ IF ~spawnOk
         THEN \* std::thread's constructor threw std::system_error
              \* catch: _kill_flag = true; return false;
              /\ kill_flag' = TRUE
              /\ UNCHANGED <<thread_work, wpc, workers, crashed>>
         ELSE IF Joinable(thread_work)
         THEN \* a second thread is spawned, then move-assignment to a joinable
              \* std::thread calls std::terminate()
              /\ kill_flag' = FALSE
              /\ workers' = workers + 1
              /\ crashed' = TRUE
              /\ UNCHANGED <<thread_work, wpc>>
         ELSE /\ kill_flag' = FALSE
              /\ thread_work' = "joinable"
              /\ wpc' = "top"
              /\ workers' = workers + 1
              /\ UNCHANGED crashed
    /\ UNCHANGED <<undelivered, late_delivery, freed, fatal, input_track, output_track, input_buffer, queue_stop, over_threshold, cur, filter_graph, buffersrc_ctx,
                   buffersink_ctx, configure_ret, ready, drain_ret, lpc, in_dtor, sent,
                   send_ret, stop_returned, complete_handler, fed, discarded, delivered>>

(* ---- Stop, statement by statement ---- *)

\* the value Stop() stores in _kill_flag
StopKillValueWrong == FALSE

StopKillValue == TRUE

\* _kill_flag = true;
StopSetKill(fromDtor) ==
    /\ CallerIdle
    /\ kill_flag' = StopKillValue
    /\ lpc' = "stop_queue"
    /\ in_dtor' = fromDtor
    /\ UNCHANGED <<undelivered, late_delivery, freed, fatal, input_track, output_track, input_buffer, queue_stop, over_threshold, thread_work, wpc, workers, cur,
                   filter_graph, buffersrc_ctx, buffersink_ctx, configure_ret, ready, drain_ret,
                   crashed, sent, send_ret, last_was_stop, stop_returned,
                   complete_handler, fed, discarded, delivered>>

\* _input_buffer.Stop();
StopQueue ==
    /\ Alive
    /\ lpc = "stop_queue"
    /\ queue_stop' = TRUE
    /\ lpc' = "stop_join"
    /\ UNCHANGED <<undelivered, late_delivery, freed, fatal, input_track, output_track, kill_flag, input_buffer, over_threshold, thread_work, wpc, workers, cur,
                   filter_graph, buffersrc_ctx, buffersink_ctx, configure_ret, ready, drain_ret,
                   in_dtor, crashed, sent, send_ret, last_was_stop, stop_returned,
                   complete_handler, fed, discarded, delivered>>

JoinSkipsWait(t, w) == TRUE

\* join() returns once the thread function has returned
JoinReady(t, w) == Joinable(t) => w = "done"

\* if (_thread_work.joinable()) _thread_work.join();  and Stop() returns
StopJoin ==
    /\ Alive
    /\ lpc = "stop_join"
    /\ JoinReady(thread_work, wpc)
    /\ IF Joinable(thread_work)
         THEN /\ thread_work' = "none"
              /\ wpc' = IF wpc = "done" THEN "none" ELSE wpc
              /\ workers' = IF wpc = "done" THEN workers - 1 ELSE workers
         ELSE UNCHANGED <<thread_work, wpc, workers>>
    /\ lpc' = IF in_dtor THEN "dtor_free" ELSE "idle"
    /\ last_was_stop' = IF in_dtor THEN last_was_stop ELSE TRUE
    /\ stop_returned' = TRUE
    /\ UNCHANGED <<undelivered, late_delivery, freed, fatal, input_track, output_track, kill_flag, input_buffer, queue_stop, over_threshold, cur, filter_graph,
                   buffersrc_ctx, buffersink_ctx, configure_ret, ready, drain_ret, in_dtor,
                   crashed, sent, send_ret, complete_handler, fed, discarded,
                   delivered>>

(* ---- destructor: Stop(), then the releases and _input_buffer.Clear() ---- *)

\* the resources the destructor releases, in the order of its statements
DtorReleasesGraphFirst == <<"filter_graph", "inputs", "outputs", "frame">>

DtorReleases == <<"frame", "inputs", "outputs", "filter_graph">>

\* OV_SAFE_FUNC calls the release function only for a non-null pointer. _frame is
\* allocated by the constructor; _inputs and _outputs may have been consumed by
\* avfilter_graph_parse_ptr; _filter_graph is as Configure left it.
Held(res) ==
    IF res = "frame" THEN {TRUE}
    ELSE IF res = "filter_graph" THEN {filter_graph # "null"}
    ELSE IF configure_ret = "none" THEN {TRUE}
    ELSE BOOLEAN

DtorFree ==
    /\ Alive
    /\ lpc = "dtor_free"
    /\ LET res == DtorReleases[Len(freed) + 1]
       IN  /\ \E held \in Held(res) : freed' = Append(freed, [res |-> res, held |-> held])
           /\ filter_graph' = IF res = "filter_graph" THEN "null" ELSE filter_graph
           /\ ready' = IF res = "filter_graph" THEN <<>> ELSE ready
    /\ lpc' = IF Len(freed) + 1 = Len(DtorReleases) THEN "dtor_clear" ELSE lpc
    /\ UNCHANGED <<undelivered, late_delivery, fatal, input_track, output_track, kill_flag, input_buffer, queue_stop,
                   over_threshold, thread_work, wpc, workers, cur,
                   buffersrc_ctx, buffersink_ctx, configure_ret, drain_ret, in_dtor, crashed,
                   sent, send_ret, last_was_stop, stop_returned, complete_handler, fed,
                   discarded, delivered>>

DtorClear ==
    /\ Alive
    /\ lpc = "dtor_clear"
    /\ input_buffer' = QueueClear(input_buffer)
    /\ lpc' = "destroyed"
    /\ UNCHANGED <<undelivered, late_delivery, freed, fatal, input_track, output_track, kill_flag, queue_stop,
                   over_threshold, thread_work, wpc, workers, cur, filter_graph, ready,
                   buffersrc_ctx, buffersink_ctx, configure_ret, drain_ret, in_dtor, crashed,
                   sent, send_ret, last_was_stop, stop_returned, complete_handler, fed,
                   discarded, delivered>>

(* ---- SendBuffer (producer) ---- *)

SendBufferCall(bad) ==
    /\ Usable
    /\ sent < MaxFrames
    /\ input_buffer' = SendBuffer(input_buffer, Frame(sent + 1, bad))
    /\ over_threshold' = IF Len(input_buffer') > Threshold
                           THEN over_threshold + 1 ELSE over_threshold
    /\ sent' = sent + 1
    /\ send_ret' = SendBufferRet
    /\ UNCHANGED <<undelivered, late_delivery, freed, fatal, input_track, output_track, kill_flag, queue_stop, thread_work, wpc, workers, cur, filter_graph,
                   buffersrc_ctx, buffersink_ctx, configure_ret, ready, drain_ret, lpc, in_dtor,
                   crashed, last_was_stop, stop_returned, complete_handler, fed,
                   discarded, delivered>>

(* ---- FilterThread (worker) ---- *)

WorkerAt(p) == ~crashed /\ wpc = p

\* ffmpeg::Conv::ToAVFrame: TRUE when it returns a frame, FALSE when it returns null
ToAVFrameResults(f) == {TRUE, FALSE}

\* av_buffersrc_add_frame_flags: "ok" (>= 0), "error" (< 0), "fault" (invalid context)
AddFrameResults(f, ctx) ==
    IF ctx = "null" THEN {"fault"}
    ELSE IF ctx = "unconfigured" THEN {"error", "fault"}
    ELSE IF f.bad THEN {"error"}
    ELSE {"ok", "error"}

\* av_buffersink_get_frame
GetFrameResults(r) == IF r = <<>> THEN {"EAGAIN", "EOF", "ERR"} ELSE {"frame", "ERR"}

LoopIgnoresKill(k) == FALSE

\* while (!_kill_flag)
LoopExits(k) == k

WTop ==
    /\ WorkerAt("top")
    /\ wpc' = IF LoopExits(kill_flag) THEN "done" ELSE "dequeue"
    /\ UNCHANGED <<undelivered, late_delivery, freed, fatal, input_track, output_track, kill_flag, input_buffer, queue_stop, over_threshold, thread_work, workers,
                   cur, filter_graph, buffersrc_ctx, buffersink_ctx, configure_ret, ready,
                   drain_ret, lpc, in_dtor, crashed, sent, send_ret, last_was_stop,
                   stop_returned, complete_handler, fed, discarded, delivered>>

\* auto obj = _input_buffer.Dequeue(); if (obj.has_value() == false) continue;
WDequeue ==
    /\ WorkerAt("dequeue")
    /\ DequeueReady(input_buffer, queue_stop)
    /\ IF DequeueHasValue(input_buffer, queue_stop)
         THEN /\ cur' = Head(input_buffer)
              /\ input_buffer' = Tail(input_buffer)
              /\ drain_ret' = "none"
              /\ wpc' = "convert"
         ELSE /\ wpc' = "top"
              /\ UNCHANGED <<cur, input_buffer, drain_ret>>
    /\ UNCHANGED <<undelivered, late_delivery, freed, fatal, input_track, output_track, kill_flag, queue_stop, over_threshold, thread_work, workers, filter_graph,
                   buffersrc_ctx, buffersink_ctx, configure_ret, ready, lpc, in_dtor, crashed,
                   sent, send_ret, last_was_stop, stop_returned, complete_handler, fed,
                   discarded, delivered>>

\* where the loop goes when ToAVFrame returned null: break
AfterConvertFailureContinues == "top"

AfterConvertFailure == "done"

\* auto av_frame = ToAVFrame(...); if (!av_frame) { logte(...); break; }
WConvert(ok) ==
    /\ WorkerAt("convert")
    /\ ok \in ToAVFrameResults(cur)
    /\ IF ok
         THEN /\ wpc' = "feed"
              /\ UNCHANGED <<cur, discarded, fatal>>
         ELSE /\ wpc' = AfterConvertFailure
              /\ discarded' = discarded \cup {cur.id}
              /\ fatal' = fatal \cup {cur.id}
              /\ cur' = NoFrame
    /\ UNCHANGED <<undelivered, late_delivery, freed, input_track, output_track, kill_flag, input_buffer, queue_stop, over_threshold, thread_work, workers,
                   filter_graph, buffersrc_ctx, buffersink_ctx, configure_ret, ready, drain_ret,
                   lpc, in_dtor, crashed, sent, send_ret, last_was_stop, stop_returned,
                   complete_handler, fed, delivered>>

Copies(n, x) == [i \in 1..n |-> x]

\* logte("An error occurred while feeding the audio filtergraph ..."): the frame
\* is dropped with a logged error
LogFeedErrorMissing(d, f) == d

LogFeedError(d, f) == d \cup {f.id}

AfterFeedErrorBreaks == "done"

\* where the loop goes when the pipeline rejected the frame: continue
AfterFeedError == "top"

\* int ret = ::av_buffersrc_add_frame_flags(_buffersrc_ctx, av_frame, KEEP_REF);
\* if (ret < 0) { logte(...); continue; }
WFeed(res, nout) ==
    /\ WorkerAt("feed")
    /\ res \in AddFrameResults(cur, buffersrc_ctx)
    /\ nout \in 0..MaxOut
    /\ res # "ok" => nout = 0
    /\ CASE res = "ok" ->
              /\ ready' = ready \o Copies(nout, cur.id)
              /\ fed' = fed \cup {cur.id}
              /\ wpc' = "drain"
              /\ UNCHANGED <<discarded, crashed>>
         [] res = "error" ->
              /\ discarded' = LogFeedError(discarded, cur)
              /\ wpc' = AfterFeedError
              /\ UNCHANGED <<ready, fed, crashed>>
         [] res = "fault" ->
              /\ crashed' = TRUE
              /\ UNCHANGED <<ready, fed, discarded, wpc>>
    /\ cur' = IF res = "fault" THEN cur ELSE NoFrame
    /\ UNCHANGED <<undelivered, late_delivery, freed, fatal, input_track, output_track, kill_flag, input_buffer, queue_stop, over_threshold, thread_work, workers,
                   filter_graph, buffersrc_ctx, buffersink_ctx, configure_ret, drain_ret, lpc,
                   in_dtor, sent, send_ret, last_was_stop, stop_returned,
                   complete_handler, delivered>>

AfterOutputLeavesDrain == "top"

\* where the drain loop goes after a frame was received and handled: next iteration
AfterOutput == "drain"

DrainLoopChecksKill(k) == k

\* the drain loop's own test: while (true)
DrainLoopExits(k) == FALSE

AfterDrainEndBreaks == "done"

\* where the worker goes when the drain loop ended (EAGAIN, EOF or an error): the
\* break leaves the inner loop only
AfterDrainEnd == "top"

\* one iteration of while (true) { ret = ::av_buffersink_get_frame(...); ... }
WDrain(res, convOk) ==
    /\ WorkerAt("drain")
    /\ res \in GetFrameResults(ready)
    /\ IF DrainLoopExits(kill_flag)
         THEN /\ res = "EAGAIN"
              /\ convOk
              /\ wpc' = "top"
              /\ UNCHANGED <<ready, delivered, drain_ret, undelivered, late_delivery>>
         ELSE /\ drain_ret' = res
              /\ IF res = "frame"
                   THEN /\ ready' = Tail(ready)
                        \* ToMediaFrame returned null: logte, continue
                        /\ delivered' = IF convOk /\ complete_handler
                                          THEN Append(delivered, Head(ready)) ELSE delivered
                        /\ undelivered' = IF convOk /\ complete_handler THEN undelivered
                                            ELSE undelivered \cup {Head(ready)}
                        /\ late_delivery' = (late_delivery
                                               \/ (convOk /\ complete_handler /\ kill_flag))
                        /\ wpc' = AfterOutput
                   ELSE /\ convOk
                        /\ wpc' = AfterDrainEnd
                        /\ UNCHANGED <<ready, delivered, undelivered, late_delivery>>
    /\ UNCHANGED <<freed, fatal, input_track, output_track, kill_flag, input_buffer, queue_stop, over_threshold, thread_work, workers,
                   cur, filter_graph, buffersrc_ctx, buffersink_ctx, configure_ret, lpc,
                   in_dtor, crashed, sent, send_ret, last_was_stop, stop_returned,
                   complete_handler, fed, discarded>>

(* ---- specification ---- *)

Lifecycle ==
    \/ \E input \in ValidTracks, output \in ValidTracks, failAt \in ConfigureFaults :
           Configure(input, output, failAt)
    \/ \E spawnOk \in BOOLEAN : Start(spawnOk)
    \/ \E fromDtor \in BOOLEAN : StopSetKill(fromDtor)
    \/ StopQueue
    \/ StopJoin
    \/ DtorFree
    \/ DtorClear

Producer == \E bad \in BOOLEAN : SendBufferCall(bad)

Worker ==
    \/ WTop
    \/ WDequeue
    \/ \E ok \in BOOLEAN : WConvert(ok)
    \/ \E res \in {"ok", "error", "fault"}, nout \in 0..MaxOut : WFeed(res, nout)
    \/ \E res \in {"EAGAIN", "EOF", "ERR", "frame"}, convOk \in BOOLEAN : WDrain(res, convOk)

Next == Lifecycle \/ Producer \/ Worker

Spec == Init /\ [][Next]_vars

\* The threads are scheduled by the operating system: a worker that can take a
\* step eventually takes it, and a caller inside Stop() eventually executes its
\* next statement.
LiveSpec == Spec /\ WF_vars(Worker) /\ WF_vars(StopQueue) /\ WF_vars(StopJoin)

\* Threshold - 1 frames were accepted by earlier SendBuffer calls (ids below 0,
\* oldest first) and Stop() has returned on a stage that was never started.
DeepQueue == [k \in 1..(Threshold - 1) |-> Frame(k - Threshold, FALSE)]

InitDeep == Init \/ InitWith(DeepQueue, TRUE)

DeepSpec == InitDeep /\ [][Next]_vars

\* The lifecycle caller alone, with every pair of descriptors: no frame is ever sent, so
\* a started worker only finds the queue empty.
ConfigNext ==
    \/ \E input \in InputTracks, output \in OutputTracks, failAt \in ConfigureFaults :
           Configure(input, output, failAt)
    \/ \E spawnOk \in BOOLEAN : Start(spawnOk)
    \/ \E fromDtor \in BOOLEAN : StopSetKill(fromDtor)
    \/ StopQueue
    \/ StopJoin
    \/ DtorFree
    \/ DtorClear
    \/ WTop
    \/ WDequeue

ConfigSpec == Init /\ [][ConfigNext]_vars

(* ======================= properties ======================= *)

WorkerRunning == wpc \notin {"none", "done"}

QueuedIds == {input_buffer[i].id : i \in 1..Len(input_buffer)}

\* C1: the completion handler receives output frames in input order: no output
\* made by feeding a later input frame is delivered before an output made by
\* feeding an earlier one (ids are assigned in SendBuffer order).
C1_OutputOrder ==
    \A i, j \in 1..Len(delivered) : i < j => delivered[i] <= delivered[j]

\* outputs of two different inputs were delivered, several of them for one input
C1_Witness ==
    /\ Len(delivered) >= 3
    /\ delivered[1] # delivered[Len(delivered)]

\* C2: once a Stop() call has returned, no step invokes the completion handler,
\* feeds a frame or puts the worker at the conversion, feed or drain statements.
C2_QuiescentAfterStop ==
    [][stop_returned =>
         /\ delivered' = delivered
         /\ fed' = fed
         /\ wpc' \notin {"convert", "feed", "drain"}]_vars

\* Stop() returned after the worker had fed and delivered, with a frame still
\* queued and a producer that went on sending
C2_Witness ==
    /\ stop_returned
    /\ fed # {}
    /\ delivered # <<>>
    /\ input_buffer # <<>>

\* C3: a Stop() call made on a stage whose pipeline is configured eventually
\* returns with the worker joined, whatever the queue depth and wherever the
\* worker is in its loop.
C3_StopTerminates ==
    (lpc = "stop_queue" /\ ~crashed /\ buffersrc_ctx = "configured")
        ~> (lpc \in {"idle", "dtor_free"} /\ wpc = "none" /\ thread_work = "none")

\* Stop() was called while the worker is inside the drain loop and a frame is queued
C3_Witness ==
    /\ lpc = "stop_queue"
    /\ ~in_dtor
    /\ wpc = "drain"
    /\ ready # <<>>
    /\ input_buffer # <<>>
    /\ buffersrc_ctx = "configured"

\* C4: every Stop() call returns without a fault in the state (kill flag set,
\* queue stopped, no worker thread), and no step of a Stop() call that follows
\* a returned Stop() changes that state.
C4_StopIdempotent ==
    [][/\ (lpc = "stop_join" /\ lpc' # "stop_join") =>
             /\ kill_flag' /\ queue_stop'
             /\ thread_work' = "none" /\ wpc' = "none" /\ workers' = 0
             /\ ~crashed'
       /\ (last_was_stop /\ (lpc \in {"stop_queue", "stop_join"} \/ lpc' = "stop_queue")) =>
             /\ UNCHANGED <<kill_flag, queue_stop, thread_work, wpc, workers, crashed>>
             /\ kill_flag /\ queue_stop]_vars

\* the second of two Stop() calls in a row is about to return
C4_Witness ==
    /\ last_was_stop
    /\ lpc = "stop_join"
    /\ ~in_dtor

\* C5: a SendBuffer call is possible in every state of a usable stage, returns 0
\* and appends exactly its frame at the tail of the input queue, leaving the
\* frames already queued in place, also above the threshold of 100.
C5_SendBufferAppends ==
    /\ [][sent' # sent =>
            /\ send_ret' = 0
            /\ Len(input_buffer') = Len(input_buffer) + 1
            /\ SubSeq(input_buffer', 1, Len(input_buffer)) = input_buffer
            /\ input_buffer'[Len(input_buffer')].id = sent']_vars
    /\ []((Usable /\ sent < MaxFrames) => ENABLED Producer)

\* a frame was accepted at a depth above the threshold, on a stopped stage
C5_Witness ==
    /\ Len(input_buffer) > Threshold
    /\ over_threshold > 0
    /\ sent > 0
    /\ queue_stop

\* ids of the frames the stage holds: queued, or in the worker's hands
InStage == QueuedIds \cup (IF cur = NoFrame THEN {} ELSE {cur.id})

Accounted == fed \cup discarded

\* C6 (as claimed): every frame accepted by SendBuffer is still held by the
\* stage, or was fed to the pipeline, or was discarded with a logged error.
C6_NoSilentLoss ==
    \A n \in 1..sent : n \in InStage \/ n \in Accounted

\* C6 (amended): a frame leaves the stage only by being fed to the pipeline, by
\* being discarded by the worker with a logged error, or, for the frames still
\* queued then, by the destructor's _input_buffer.Clear(), which logs nothing.
C6_LossOnlyAtDestruction ==
    [][\A n \in InStage \ InStage' :
          \/ n \in Accounted'
          \/ lpc = "dtor_clear" /\ lpc' = "destroyed" /\ n \in QueuedIds]_vars

\* the destructor cleared a queued frame after the worker had fed another one
\* and discarded a third
C6_Witness ==
    /\ lpc = "destroyed"
    /\ fed # {}
    /\ (1..sent) \ Accounted # {}

\* C7 (as claimed): the worker loop exits only with the kill flag set and the
\* input queue stopped and empty.
C7_ExitOnlyWhenStoppedAndEmpty ==
    [][(wpc # "done" /\ wpc' = "done") =>
          (kill_flag' /\ queue_stop' /\ input_buffer' = <<>>)]_vars

\* C7 (amended): the worker loop exits only at its loop test with the kill flag
\* set, or by the break that follows a failed input conversion; the queue's
\* state plays no part.
C7_ExitOnlyOnKillOrConvertFailure ==
    [][(wpc # "done" /\ wpc' = "done") =>
          \/ wpc = "top" /\ kill_flag
          \/ wpc = "convert" /\ cur.id \in discarded' /\ cur.id \notin fed']_vars

\* the worker has exited on the kill flag while the queue was neither stopped
\* nor empty
C7_Witness ==
    /\ wpc = "done"
    /\ kill_flag
    /\ ~queue_stop
    /\ input_buffer # <<>>
    /\ discarded = {}

\* the worker takes a frame from the queue after having handled an earlier one
NextDequeue ==
    /\ wpc = "dequeue"
    /\ wpc' = "convert"
    /\ Accounted # {}

\* the frame the worker handled last (ids are dequeued in increasing order)
LastHandled == CHOOSE n \in Accounted : \A m \in Accounted : m <= n

\* C8 (as claimed): before the worker dequeues the next input frame it has
\* requested output until the pipeline answered EAGAIN.
C8_DrainedToEagain ==
    [][NextDequeue => drain_ret = "EAGAIN"]_vars

\* C8 (amended): before the worker dequeues the next input frame, if the
\* earlier frame was fed it has requested output until the pipeline answered
\* EAGAIN, end-of-stream or an error, and after EAGAIN the pipeline holds no
\* ready output; if the feed was rejected it has requested no output.
C8_DrainedToEagainEofOrError ==
    [][NextDequeue =>
          /\ LastHandled \in fed => drain_ret \in {"EAGAIN", "EOF", "ERR"}
          /\ LastHandled \notin fed => drain_ret = "none"
          /\ drain_ret = "EAGAIN" => ready = <<>>]_vars

\* the worker is about to dequeue the next frame after draining the earlier
\* one, with outputs delivered, until EAGAIN
C8_Witness ==
    /\ wpc = "dequeue"
    /\ drain_ret = "EAGAIN"
    /\ delivered # <<>>
    /\ DequeueHasValue(input_buffer, queue_stop)

\* C9 (as claimed): handling a malformed frame on a configured pipeline never
\* ends the worker: it goes on to the next frame.
C9_MalformedFrameSkipped ==
    [][(cur.bad /\ wpc \in {"convert", "feed"} /\ wpc' # wpc
            /\ buffersrc_ctx = "configured") =>
          wpc' \in {"feed", "top"}]_vars

\* C10 (as claimed): Start() spawns a worker only on a stage whose Configure
\* returned success, that has no worker and was not stopped.
C10_StartOnlyWhenConfigured ==
    [][workers' > workers =>
          /\ configure_ret = "ok"
          /\ workers = 0
          /\ ~stop_returned]_vars

\* C11 (as claimed): once a Stop() call has returned, no later call spawns a
\* worker thread again and no frame is fed to the pipeline.
C11_StoppedIsTerminal ==
    [][stop_returned => (workers' <= workers /\ fed' = fed)]_vars

\* C12 (as claimed): after Configure has returned false the stage holds no
\* filter graph and no filter context.
C12_FailureReleasesAll ==
    (configure_ret = "fail" /\ lpc = "idle")
        => (filter_graph = "null" /\ buffersrc_ctx = "null" /\ buffersink_ctx = "null")

\* a descriptor is null, or the timebase scale of the pair is NaN or infinite
BadDescriptors(input, output) ==
    input.null \/ output.null \/ Scale(input, output) # "finite"

\* C13 (as claimed): a Configure call whose input or output descriptor is
\* null, or whose timebase scale is NaN or infinite, returns false and creates
\* no filter context; Configure returns true only for two non-null
\* descriptors with a finite scale.
C13_RejectsBadDescriptors ==
    [][(<<input_track, output_track, configure_ret>>' # <<input_track, output_track, configure_ret>>)
          => /\ (configure_ret' = "ok") => ~BadDescriptors(input_track', output_track')
             /\ BadDescriptors(input_track', output_track')
                  => /\ configure_ret' = "fail"
                     /\ ~crashed'
                     /\ UNCHANGED <<buffersrc_ctx, buffersink_ctx>>]_vars

\* C14 (as claimed): once Configure has returned true, and whenever a worker
\* thread exists, no call changes the bound descriptors, the filter graph or
\* the filter contexts before the destructor runs.
C14_ConfiguredOnce ==
    [][((configure_ret = "ok" /\ ~in_dtor') \/ workers > 0)
          => UNCHANGED <<input_track, output_track, configure_ret, filter_graph,
                         buffersrc_ctx, buffersink_ctx>>]_vars

\* C15: whenever the destructor has passed its Stop() call (it is at one of
\* its release statements, at Clear(), or has finished), Stop() has run in
\* full and no worker thread exists: the worker was joined before the first
\* release.
C15_JoinedBeforeRelease ==
    (lpc \in {"dtor_free", "dtor_clear", "destroyed"} \/ freed # <<>>)
        => /\ kill_flag /\ queue_stop /\ stop_returned
           /\ wpc = "none" /\ workers = 0 /\ thread_work = "none"

\* the destructor released the filter graph of a stage whose worker had fed a frame
C15_Witness ==
    /\ Len(freed) = Len(DtorReleases)
    /\ freed[Len(freed)].held
    /\ fed # {}
    /\ ~crashed

\* C16 (as claimed): while a worker thread is running, no call of the
\* producer or of the lifecycle caller writes the filter graph or the filter
\* contexts.
C16_WorkerOwnsPipeline ==
    [][WorkerRunning => UNCHANGED <<filter_graph, buffersrc_ctx, buffersink_ctx>>]_vars

\* C17: the step on which the conversion of a dequeued frame fails ends the
\* worker loop and feeds nothing, and the failed frame is never fed. From
\* then on no step feeds a frame or invokes the handler; every SendBuffer call
\* still appends its frame and returns 0; and a Stop() call that reaches its
\* join returns with the thread joined and no worker left, as after a clean
\* stop.
C17_FatalConversionFailure ==
    [][/\ fatal' # fatal => (wpc' = "done" /\ fed' = fed /\ fatal' \cap fed' = {})
       /\ fatal # {}
            => /\ fed' = fed
               /\ delivered' = delivered
               /\ sent' # sent
                    => (send_ret' = 0 /\ Len(input_buffer') = Len(input_buffer) + 1)
               /\ (lpc = "stop_join" /\ lpc' # "stop_join")
                    => /\ thread_work' = "none" /\ wpc' = "none" /\ workers' = 0
                       /\ kill_flag' /\ queue_stop' /\ stop_returned']_vars

\* after a conversion failure a frame was still accepted and Stop() returned
C17_Witness ==
    /\ fatal # {}
    /\ stop_returned
    /\ thread_work = "none"
    /\ wpc = "none"
    /\ \E i \in 1..Len(input_buffer) : \A n \in fatal : input_buffer[i].id > n
    /\ send_ret = 0

\* C18: unless the process faults, (a) the worker leaves the feed statement
\* only for the drain loop, when the frame was fed, or for the loop top, when
\* the pipeline rejected it: the rejected frame is logged and no output is
\* taken or delivered; (b) the worker leaves the drain loop only for the loop
\* top, after EAGAIN, end-of-stream or an error; (c) an output frame that is
\* taken from the sink and not delivered leaves the worker in the drain loop;
\* (d) at the loop top with the kill flag clear the worker goes on to dequeue,
\* and what it dequeues is the head of the queue.
C18_RecoverableErrors ==
    [][~crashed'
         => /\ (wpc = "feed" /\ wpc' # "feed")
                 => \/ wpc' = "drain" /\ fed' = fed \cup {cur.id}
                    \/ /\ wpc' = "top" /\ fed' = fed /\ cur.id \in discarded'
                       /\ Len(ready') <= Len(ready) /\ delivered' = delivered
            /\ (wpc = "drain" /\ wpc' # "drain")
                 => (wpc' = "top" /\ drain_ret' \in {"EAGAIN", "EOF", "ERR"})
            /\ (wpc = "drain" /\ Len(ready') < Len(ready) /\ delivered' = delivered)
                 => wpc' = "drain"
            /\ (wpc = "top" /\ wpc' # "top" /\ ~kill_flag) => wpc' = "dequeue"
            /\ (wpc = "dequeue" /\ wpc' = "convert") => cur' = Head(input_buffer)]_vars

\* the worker is feeding a frame after the pipeline rejected an earlier one
C18_Witness ==
    /\ wpc = "feed"
    /\ \E n \in discarded \ fatal : cur.id > n
    /\ ~crashed

\* allocation order: the constructor allocates the frame buffer, the outputs,
\* the inputs; Configure allocates the filter graph
AllocationOrder == <<"frame", "outputs", "inputs", "filter_graph">>

PosIn(seq, x) == CHOOSE i \in 1..Len(seq) : seq[i] = x

\* C19 (as claimed): the destructor's release statements run in the reverse of
\* the allocation order.
C19_ReverseAllocationOrder ==
    \A i, j \in 1..Len(freed) :
        i < j => PosIn(AllocationOrder, freed[i].res) > PosIn(AllocationOrder, freed[j].res)

\* C19 (amended): the destructor's release statements run, after Stop() and
\* before the queue is cleared, in the fixed order frame buffer, inputs,
\* outputs, filter graph, each releasing only a non-null pointer; the queue is
\* cleared only after all four.
C19_ReleaseOrder ==
    /\ \A i \in 1..Len(freed) :
          freed[i].res = <<"frame", "inputs", "outputs", "filter_graph">>[i]
    /\ Len(freed) <= 4
    /\ freed # <<>> => (stop_returned /\ lpc \in {"dtor_free", "dtor_clear", "destroyed"})
    /\ lpc \in {"dtor_clear", "destroyed"} => Len(freed) = 4

\* the destructor released all four resources of a configured stage
C19_Witness ==
    /\ lpc = "destroyed"
    /\ Len(freed) = 4
    /\ \A i \in 1..4 : freed[i].held
    /\ configure_ret = "ok"

\* C20 (as claimed): with a handler registered, every output frame the
\* pipeline returned for a fed frame was delivered to the handler.
C20_AllOutputsDelivered == complete_handler => undelivered = {}

\* C20 (amended): the drain loop never tests the kill flag: the worker leaves
\* it only for the loop top, after the sink reported EAGAIN, end-of-stream or
\* an error, so a Stop() called in the middle of a drain does not cut it
\* short; each frame the sink returns is passed to the handler unless its
\* conversion fails or no handler is registered. The handler is called only
\* from the drain loop and only before a Stop() call has returned. At the loop
\* top with the kill flag set the worker exits, and once it has exited
\* nothing is dequeued.
C20_DrainIgnoresKill ==
    [][/\ (wpc = "drain" /\ wpc' # "drain" /\ ~crashed')
            => (wpc' = "top" /\ drain_ret' \in {"EAGAIN", "EOF", "ERR"})
       /\ delivered' # delivered
            => /\ wpc = "drain" /\ wpc' = "drain"
               /\ ready # <<>> /\ delivered' = Append(delivered, Head(ready))
               /\ complete_handler
               /\ ~stop_returned
       /\ undelivered' # undelivered
            => (wpc = "drain" /\ wpc' = "drain" /\ delivered' = delivered)
       /\ (wpc = "top" /\ wpc' # "top" /\ kill_flag /\ ~crashed') => wpc' = "done"
       /\ (wpc \in {"done", "none"} /\ lpc # "dtor_clear")
            => Len(input_buffer') >= Len(input_buffer)]_vars

\* the handler was called after Stop() had set the kill flag, and Stop() is waiting in its
\* join for the worker, which is still draining
C20_Witness ==
    /\ late_delivery
    /\ lpc = "stop_join"
    /\ wpc = "drain"
    /\ ~crashed

====
